---- MODULE Spec2Model ----
(***************************************************************************)
(* Model of generate-link.js, the GitHub raw asset link generator.         *)
(*                                                                         *)
(* A JavaScript string that the program inspects character by character    *)
(* (a command-line argument, a path segment, a directory entry name) is a  *)
(* sequence of one-character strings; Str renders it as text where the     *)
(* program interpolates it into a template literal.  Text written to the   *)
(* console is a record that carries the rendered text together with the    *)
(* values interpolated into it.                                            *)
(***************************************************************************)
EXTENDS Integers, Sequences, FiniteSets, TLC

VARIABLES
    args,       \* process.argv.slice(2): a sequence of character sequences
    pc,         \* position of the script
    pathParts,  \* input.split('/')
    dirState,   \* what existsSync and readdirSync found: "missing", "unreadable", "read"
    dirEntries, \* what readdirSync returned, with what statSync says of each entry
    files,      \* the value returned by getFilesInFolder
    idx,        \* number of files.forEach callbacks already run
    stdout,     \* console.log calls, in order
    stderr,     \* console.error calls, in order
    fsOps,      \* filesystem calls made, in order
    exitCode,   \* the process's exit code; -1 while the process runs
    lnFolder,   \* generateLink called directly: its folder argument
    lnFilename, \* generateLink called directly: its filename argument
    lnResults   \* generateLink called directly: the values returned so far

vars == <<args, pc, pathParts, dirState, dirEntries, files, idx, stdout, stderr, fsOps,
          exitCode, lnFolder, lnFilename, lnResults>>

cliVars == <<args, pc, pathParts, dirState, dirEntries, files, idx, stdout, stderr, fsOps,
            exitCode>>

lnVars == <<lnFolder, lnFilename, lnResults>>

----------------------------------------------------------------------------
(* Bounds *)

MaxArgs == 2

MaxEntries == 3

MaxTime == 2

MaxLen == 3

MaxCalls == 2

----------------------------------------------------------------------------
(* Strings *)

RECURSIVE Str(_)
Str(s) == IF s = <<>> THEN "" ELSE Head(s) \o Str(Tail(s))

RECURSIVE join(_, _)
join(parts, sep) ==
    IF parts = <<>> THEN ""
    ELSE IF Len(parts) = 1 THEN Str(parts[1])
    ELSE Str(parts[1]) \o sep \o join(Tail(parts), sep)

(* split stopping at the first separator *)
splitFirst(s) ==
    IF \E i \in 1..Len(s) : s[i] = "/"
    THEN LET i == CHOOSE k \in 1..Len(s) :
                      s[k] = "/" /\ \A j \in 1..(k - 1) : s[j] # "/"
         IN  <<SubSeq(s, 1, i - 1), SubSeq(s, i + 1, Len(s))>>
    ELSE <<s>>

RECURSIVE split(_)
split(s) ==
    IF \E i \in 1..Len(s) : s[i] = "/"
    THEN LET i == CHOOSE k \in 1..Len(s) :
                      s[k] = "/" /\ \A j \in 1..(k - 1) : s[j] # "/"
         IN  <<SubSeq(s, 1, i - 1)>> \o split(SubSeq(s, i + 1, Len(s)))
    ELSE <<s>>

startsWithDot(name) == Len(name) > 0 /\ name[1] = "."

includes(seq, x) == \E i \in 1..Len(seq) : seq[i] = x

----------------------------------------------------------------------------
(* Configuration *)

REPO_OWNER == "xephas-official"

REPO_NAME == "AppAssets"

BRANCH == "main"

PROJECT_PATH == "linkyoo"

FOLDERS == << <<"m","e","t","a">>,
              <<"p","l","a","c","e","h","o","l","d","e","r","s">>,
              <<"b","l","o","g">> >>

DirName == "/repo"

(* the URL without refs/heads *)
generateLinkNoRefs(folder, filename) ==
    "https://raw.githubusercontent.com/" \o REPO_OWNER \o "/" \o REPO_NAME \o "/"
        \o BRANCH \o "/" \o PROJECT_PATH \o "/" \o Str(folder) \o "/" \o Str(filename)

generateLink(folder, filename) ==
    "https://raw.githubusercontent.com/" \o REPO_OWNER \o "/" \o REPO_NAME
        \o "/refs/heads/" \o BRANCH \o "/" \o PROJECT_PATH \o "/"
        \o Str(folder) \o "/" \o Str(filename)

folderPath(folder) == DirName \o "/" \o PROJECT_PATH \o "/" \o Str(folder)

filePath(folder, file) == folderPath(folder) \o "/" \o Str(file)

----------------------------------------------------------------------------
(* Console output *)

Out(kind, folder, file, num, link, text) ==
    [kind |-> kind, folder |-> folder, file |-> file, num |-> num,
     link |-> link, text |-> text]

UsageText ==
    "\nUsage: node generate-link.js <path>\n"
    \o "\nArguments:\n"
    \o "  path - The path to the asset or just the folder name\n"
    \o "\nExamples:\n"
    \o "  # Generate link for a specific file:\n"
    \o "  node generate-link.js meta/Linkyoo-Editor-Cover.webp\n"
    \o "  node generate-link.js blog/Linkyoo-Editor-Blog.webp\n"
    \o "  node generate-link.js placeholders/kalya-placeholder.webp\n"
    \o "\n  # Generate links for all files in a folder (sorted by newest first):\n"
    \o "  node generate-link.js meta\n"
    \o "  node generate-link.js placeholders\n"
    \o "  node generate-link.js blog\n"
    \o "\nAvailable folders: " \o join(FOLDERS, ", ") \o "\n  "

showUsage == Out("usage", "", "", 0, "", UsageText)

ArgCountMsg ==
    Out("argCountError", "", "", 0, "",
        "Error: Please provide the path in the format: folder/filename or just folder\n")

PathFormatMsg ==
    Out("pathFormatError", "", "", 0, "",
        "Error: Path must be in the format: folder/filename or just folder\n")

InvalidFolderMsg(folder) ==
    Out("invalidFolder", Str(folder), "", 0, "",
        "Error: Invalid folder \"" \o Str(folder) \o "\". Must be one of: "
            \o join(FOLDERS, ", ") \o "\n")

MissingDirMsg(folder) ==
    Out("missingDir", Str(folder), "", 0, "",
        "Error: Folder \"" \o folderPath(folder) \o "\" does not exist.")

ReadErrorMsg(folder, message) ==
    Out("readError", Str(folder), "", 0, "", "Error reading folder: " \o message)

NoFilesMsg(folder) ==
    Out("noFiles", Str(folder), "", 0, "",
        "\nNo files found in \"" \o Str(folder) \o "\" folder.\n")

(* the header without the singular form *)
HeaderMsgAlwaysPlural(folder, n) ==
    Out("header", Str(folder), "", n, "",
        "\nGenerated Links for \"" \o Str(folder) \o "\" folder (" \o ToString(n)
            \o " files, sorted by newest first):\n")

HeaderMsg(folder, n) ==
    Out("header", Str(folder), "", n, "",
        "\nGenerated Links for \"" \o Str(folder) \o "\" folder (" \o ToString(n)
            \o " file" \o (IF n > 1 THEN "s" ELSE "") \o ", sorted by newest first):\n")

ItemMsg(folder, filename, index) ==
    Out("item", Str(folder), Str(filename), index + 1, "",
        ToString(index + 1) \o ". " \o Str(filename))

ItemLinkMsg(folder, filename, index, link) ==
    Out("link", Str(folder), Str(filename), index + 1, link, "   " \o link \o "\n")

LinkTitleMsg == Out("linkTitle", "", "", 0, "", "\nGenerated Link:")

LinkMsg(folder, filename, link) == Out("link", Str(folder), Str(filename), 0, link, link)

BlankMsg == Out("blank", "", "", 0, "", "")

FsOp(op, path) == [op |-> op, path |-> path]

----------------------------------------------------------------------------
(* The filesystem as getFilesInFolder sees it.  An entry of the directory  *)
(* is its name, what statSync reports of it and its mtime in milliseconds  *)
(* (read only of an entry that is a file).  kind "gone": statSync throws   *)
(* (a dangling symlink, an entry removed after readdirSync); "vanishing":  *)
(* a file at the first statSync, removed before the second.                *)

EntryNames == { <<"a",".","p","n","g">>, <<"b",".","p","n","g">>,
                <<"c",".","t","x","t">>, <<".","e","n","v">> }

EntryKinds == {"file", "dir", "gone", "vanishing"}

StatResults ==
    [kind : {"file"}, mtime : 1..MaxTime] \cup [kind : EntryKinds \ {"file"}, mtime : {0}]

(* readdirSync returns each name once, in no particular order *)
NameLists(n) == { p \in [1..n -> EntryNames] : \A i, j \in 1..n : i # j => p[i] # p[j] }

Listing(p, a) ==
    [i \in 1..Len(p) |-> [name |-> p[i], kind |-> a[i].kind, mtime |-> a[i].mtime]]

ReaddirErrors == {"ENOTDIR: not a directory, scandir", "EACCES: permission denied, scandir"}

StatError(folder, file) ==
    "ENOENT: no such file or directory, stat '" \o filePath(folder, file) \o "'"

(* .filter(file => !file.startsWith('.') && fs.statSync(filePath).isFile()) *)
RECURSIVE filterFiles(_, _, _, _)
filterFiles(entries, folder, kept, ops) ==
    IF entries = <<>> THEN [threw |-> FALSE, value |-> kept, ops |-> ops, message |-> ""]
    ELSE LET e == Head(entries)
             op == FsOp("statSync", filePath(folder, e.name))
         IN  IF startsWithDot(e.name)
             THEN filterFiles(Tail(entries), folder, kept, ops)
             ELSE IF e.kind = "gone"
             THEN [threw |-> TRUE, value |-> kept, ops |-> Append(ops, op),
                   message |-> StatError(folder, e.name)]
             ELSE filterFiles(Tail(entries), folder,
                              IF e.kind \in {"file", "vanishing"}
                              THEN Append(kept, e) ELSE kept,
                              Append(ops, op))

(* .map(file => ({ name: file, mtime: fs.statSync(filePath).mtime.getTime() })) *)
RECURSIVE mapStats(_, _, _, _)
mapStats(entries, folder, mapped, ops) ==
    IF entries = <<>> THEN [threw |-> FALSE, value |-> mapped, ops |-> ops, message |-> ""]
    ELSE LET e == Head(entries)
             op == FsOp("statSync", filePath(folder, e.name))
         IN  IF e.kind = "vanishing"
             THEN [threw |-> TRUE, value |-> mapped, ops |-> Append(ops, op),
                   message |-> StatError(folder, e.name)]
             ELSE mapStats(Tail(entries), folder,
                           Append(mapped, [name |-> e.name, mtime |-> e.mtime]),
                           Append(ops, op))

(* oldest first *)
compareAscending(a, b) == a.mtime - b.mtime

(* (a, b) => b.mtime - a.mtime *)
compare(a, b) == b.mtime - a.mtime

(* Array.prototype.sort is stable: x, which followed every element of      *)
(* sorted in the input, goes before the first element that must follow it. *)
insertSorted(sorted, x) ==
    LET after == { i \in 1..Len(sorted) : compare(sorted[i], x) > 0 }
        k == IF after = {} THEN Len(sorted) + 1
             ELSE CHOOSE i \in after : \A j \in after : i <= j
    IN  SubSeq(sorted, 1, k - 1) \o <<x>> \o SubSeq(sorted, k, Len(sorted))

RECURSIVE sort(_)
sort(s) == IF s = <<>> THEN <<>> ELSE insertSorted(sort(SubSeq(s, 1, Len(s) - 1)), s[Len(s)])

names(s) == [i \in 1..Len(s) |-> s[i].name]

(* The try block of getFilesInFolder, given what readdirSync returned:     *)
(* the value returned, the filesystem calls made and the errors reported.  *)
(* the catch block returning what was collected before the failure *)
listFilesPartial(entries, folder) ==
    LET f == filterFiles(entries, folder, <<>>, <<>>)
        m == mapStats(f.value, folder, <<>>, f.ops)
    IN  IF f.threw
        THEN [files |-> names(f.value), ops |-> f.ops,
              errors |-> <<ReadErrorMsg(folder, f.message)>>]
        ELSE IF m.threw
        THEN [files |-> names(sort(m.value)), ops |-> m.ops,
              errors |-> <<ReadErrorMsg(folder, m.message)>>]
        ELSE [files |-> names(sort(m.value)), ops |-> m.ops, errors |-> <<>>]

listFiles(entries, folder) ==
    LET f == filterFiles(entries, folder, <<>>, <<>>)
        m == mapStats(f.value, folder, <<>>, f.ops)
    IN  IF f.threw
        THEN [files |-> <<>>, ops |-> f.ops, errors |-> <<ReadErrorMsg(folder, f.message)>>]
        ELSE IF m.threw
        THEN [files |-> <<>>, ops |-> m.ops, errors |-> <<ReadErrorMsg(folder, m.message)>>]
        ELSE [files |-> names(sort(m.value)), ops |-> m.ops, errors |-> <<>>]

----------------------------------------------------------------------------
(* The command line *)

ArgStrings ==
    { <<"m","e","t","a">>,
      <<"b","l","o","g">>,
      <<"p","l","a","c","e","h","o","l","d","e","r","s">>,
      <<"d","o","c","s">>,
      <<>>,
      <<"m","e","t","a","/","c","o","v","e","r",".","w","e","b","p">>,
      <<"m","e","t","a","/">>,
      <<"b","l","o","g","/","a"," ","b">>,
      <<"d","o","c","s","/","a",".","p","n","g">>,
      <<"/","a",".","p","n","g">>,
      <<"m","e","t","a","/","a","/","b">>,
      <<"d","o","c","s","/","a","/","b">>,
      <<"-","-","h","e","l","p">>,
      <<"-","h">> }

ArgLists == UNION { [1..n -> ArgStrings] : n \in 0..MaxArgs }

(* the help flag looked for in the first argument only *)
helpRequestedFirstOnly(a) ==
    IF Len(a) = 0 THEN TRUE
    ELSE a[1] = <<"-","-","h","e","l","p">> \/ a[1] = <<"-","h">>

helpRequested(a) ==
    Len(a) = 0 \/ includes(a, <<"-","-","h","e","l","p">>) \/ includes(a, <<"-","h">>)

folderOf == pathParts[1]

exit(code) == pc' = "exited" /\ exitCode' = code

Init ==
    /\ args \in ArgLists
    /\ pc = "start"
    /\ pathParts = <<>>
    /\ dirState = "unknown"
    /\ dirEntries = <<>>
    /\ files = <<>>
    /\ idx = 0
    /\ stdout = <<>>
    /\ stderr = <<>>
    /\ fsOps = <<>>
    /\ exitCode = -1
    /\ lnFolder = <<>>
    /\ lnFilename = <<>>
    /\ lnResults = <<>>

(* lines 93-96 *)
ShowHelp ==
    /\ pc = "start"
    /\ helpRequested(args)
    /\ stdout' = Append(stdout, showUsage)
    /\ exit(0)
    /\ UNCHANGED <<args, pathParts, dirState, dirEntries, files, idx, stderr, fsOps, lnVars>>

(* lines 98-102 *)
ArgCountError ==
    /\ pc = "start"
    /\ ~helpRequested(args)
    /\ Len(args) # 1
    /\ stderr' = Append(stderr, ArgCountMsg)
    /\ stdout' = Append(stdout, showUsage)
    /\ exit(1)
    /\ UNCHANGED <<args, pathParts, dirState, dirEntries, files, idx, fsOps, lnVars>>

(* lines 104-105 *)
SplitInput ==
    /\ pc = "start"
    /\ ~helpRequested(args)
    /\ Len(args) = 1
    /\ pathParts' = split(args[1])
    /\ pc' = "dispatch"
    /\ UNCHANGED <<args, dirState, dirEntries, files, idx, stdout, stderr, fsOps, exitCode,
                   lnVars>>

(* the invalid folder reported without process.exit(1) *)
InvalidFolderOnlyNoExit ==
    /\ pc = "dispatch"
    /\ Len(pathParts) = 1
    /\ ~includes(FOLDERS, folderOf)
    /\ stderr' = Append(stderr, InvalidFolderMsg(folderOf))
    /\ stdout' = Append(stdout, showUsage)
    /\ pc' = "exists"
    /\ UNCHANGED <<args, pathParts, dirState, dirEntries, files, idx, fsOps, exitCode, lnVars>>

(* lines 108-116: a folder alone, not one of FOLDERS *)
InvalidFolderOnly ==
    /\ pc = "dispatch"
    /\ Len(pathParts) = 1
    /\ ~includes(FOLDERS, folderOf)
    /\ stderr' = Append(stderr, InvalidFolderMsg(folderOf))
    /\ stdout' = Append(stdout, showUsage)
    /\ exit(1)
    /\ UNCHANGED <<args, pathParts, dirState, dirEntries, files, idx, fsOps, lnVars>>

(* getFilesInFolder called without the FOLDERS check *)
EnterFolderUnchecked ==
    /\ pc = "dispatch"
    /\ Len(pathParts) = 1
    /\ pc' = "exists"
    /\ UNCHANGED <<args, pathParts, dirState, dirEntries, files, idx, stdout, stderr, fsOps,
                   exitCode, lnVars>>

(* lines 108-118: a folder alone, one of FOLDERS: getFilesInFolder is called *)
EnterFolder ==
    /\ pc = "dispatch"
    /\ Len(pathParts) = 1
    /\ includes(FOLDERS, folderOf)
    /\ pc' = "exists"
    /\ UNCHANGED <<args, pathParts, dirState, dirEntries, files, idx, stdout, stderr, fsOps,
                   exitCode, lnVars>>

(* a missing directory treated as fatal *)
FolderMissingFatal ==
    /\ pc = "exists"
    /\ fsOps' = Append(fsOps, FsOp("existsSync", folderPath(folderOf)))
    /\ stderr' = Append(stderr, MissingDirMsg(folderOf))
    /\ files' = <<>>
    /\ dirState' = "missing"
    /\ exit(1)
    /\ UNCHANGED <<args, pathParts, dirEntries, idx, stdout, lnVars>>

(* lines 34-39: the directory does not exist *)
FolderMissing ==
    /\ pc = "exists"
    /\ fsOps' = Append(fsOps, FsOp("existsSync", folderPath(folderOf)))
    /\ stderr' = Append(stderr, MissingDirMsg(folderOf))
    /\ files' = <<>>
    /\ dirState' = "missing"
    /\ pc' = "listed"
    /\ UNCHANGED <<args, pathParts, dirEntries, idx, stdout, exitCode, lnVars>>

(* lines 36, 41-42, 59-62: readdirSync throws *)
ReaddirFails ==
    /\ pc = "exists"
    /\ \E e \in ReaddirErrors :
          stderr' = Append(stderr,
              ReadErrorMsg(folderOf, e \o " '" \o folderPath(folderOf) \o "'"))
    /\ fsOps' = fsOps \o <<FsOp("existsSync", folderPath(folderOf)),
                           FsOp("readdirSync", folderPath(folderOf))>>
    /\ files' = <<>>
    /\ dirState' = "unreadable"
    /\ pc' = "listed"
    /\ UNCHANGED <<args, pathParts, dirEntries, idx, stdout, exitCode, lnVars>>

(* lines 36, 41-62: readdirSync returns the entries; filter, map, sort *)
ListFolder ==
    /\ pc = "exists"
    /\ \E n \in 0..MaxEntries : \E p \in NameLists(n) : \E a \in [1..n -> StatResults] :
          LET d == Listing(p, a)
              r == listFiles(d, folderOf)
          IN  /\ dirEntries' = d
              /\ fsOps' = fsOps \o <<FsOp("existsSync", folderPath(folderOf)),
                                     FsOp("readdirSync", folderPath(folderOf))>> \o r.ops
              /\ stderr' = stderr \o r.errors
              /\ files' = r.files
    /\ dirState' = "read"
    /\ pc' = "listed"
    /\ UNCHANGED <<args, pathParts, idx, stdout, exitCode, lnVars>>

(* lines 120-123 *)
NoFiles ==
    /\ pc = "listed"
    /\ Len(files) = 0
    /\ stdout' = Append(stdout, NoFilesMsg(folderOf))
    /\ exit(0)
    /\ UNCHANGED <<args, pathParts, dirState, dirEntries, files, idx, stderr, fsOps, lnVars>>

(* line 125 *)
PrintHeader ==
    /\ pc = "listed"
    /\ Len(files) # 0
    /\ stdout' = Append(stdout, HeaderMsg(folderOf, Len(files)))
    /\ idx' = 0
    /\ pc' = "forEach"
    /\ UNCHANGED <<args, pathParts, dirState, dirEntries, files, stderr, fsOps, exitCode, lnVars>>

(* lines 126-130: one callback of files.forEach *)
PrintFile ==
    /\ pc = "forEach"
    /\ idx < Len(files)
    /\ LET filename == files[idx + 1]
           link == generateLink(folderOf, filename)
       IN  stdout' = stdout \o <<ItemMsg(folderOf, filename, idx),
                                 ItemLinkMsg(folderOf, filename, idx, link)>>
    /\ idx' = idx + 1
    /\ UNCHANGED <<args, pc, pathParts, dirState, dirEntries, files, stderr, fsOps, exitCode, lnVars>>

(* the script ends after the last callback *)
EndOfList ==
    /\ pc = "forEach"
    /\ idx = Len(files)
    /\ exit(0)
    /\ UNCHANGED <<args, pathParts, dirState, dirEntries, files, idx, stdout, stderr, fsOps, lnVars>>

(* lines 132-141: folder/filename, the folder not one of FOLDERS *)
InvalidFolderOfFile ==
    /\ pc = "dispatch"
    /\ Len(pathParts) = 2
    /\ ~includes(FOLDERS, folderOf)
    /\ stderr' = Append(stderr, InvalidFolderMsg(folderOf))
    /\ stdout' = Append(stdout, showUsage)
    /\ exit(1)
    /\ UNCHANGED <<args, pathParts, dirState, dirEntries, files, idx, fsOps, lnVars>>

(* an empty filename rejected as a malformed path *)
PrintLinkNonEmptyName ==
    /\ pc = "dispatch"
    /\ Len(pathParts) = 2
    /\ includes(FOLDERS, folderOf)
    /\ IF pathParts[2] = <<>>
       THEN /\ stderr' = Append(stderr, PathFormatMsg)
            /\ stdout' = Append(stdout, showUsage)
            /\ exit(1)
       ELSE /\ stdout' = stdout \o <<LinkTitleMsg,
                    LinkMsg(pathParts[1], pathParts[2],
                            generateLink(pathParts[1], pathParts[2])),
                    BlankMsg>>
            /\ exit(0)
            /\ UNCHANGED stderr
    /\ UNCHANGED <<args, pathParts, dirState, dirEntries, files, idx, fsOps, lnVars>>

(* lines 132-147: folder/filename, the folder one of FOLDERS; the script ends *)
PrintLink ==
    /\ pc = "dispatch"
    /\ Len(pathParts) = 2
    /\ includes(FOLDERS, folderOf)
    /\ LET link == generateLink(pathParts[1], pathParts[2])
       IN  stdout' = stdout \o <<LinkTitleMsg, LinkMsg(pathParts[1], pathParts[2], link),
                                 BlankMsg>>
    /\ exit(0)
    /\ UNCHANGED <<args, pathParts, dirState, dirEntries, files, idx, stderr, fsOps, lnVars>>

(* lines 149-153 *)
MalformedPath ==
    /\ pc = "dispatch"
    /\ Len(pathParts) > 2
    /\ stderr' = Append(stderr, PathFormatMsg)
    /\ stdout' = Append(stdout, showUsage)
    /\ exit(1)
    /\ UNCHANGED <<args, pathParts, dirState, dirEntries, files, idx, fsOps, lnVars>>

Next ==
    \/ ShowHelp
    \/ ArgCountError
    \/ SplitInput
    \/ InvalidFolderOnly
    \/ EnterFolder
    \/ FolderMissing
    \/ ReaddirFails
    \/ ListFolder
    \/ NoFiles
    \/ PrintHeader
    \/ PrintFile
    \/ EndOfList
    \/ InvalidFolderOfFile
    \/ PrintLink
    \/ MalformedPath

Spec == Init /\ [][Next]_vars

----------------------------------------------------------------------------
(* generateLink called on its own *)

Alphabet == {"a", ".", "/", " ", "%"}

Filenames == UNION { [1..n -> Alphabet] : n \in 0..MaxLen }

InitLink ==
    /\ lnFolder \in { FOLDERS[i] : i \in 1..Len(FOLDERS) }
    /\ lnFilename \in Filenames
    /\ lnResults = <<>>
    /\ args = <<>>
    /\ pc = "module"
    /\ pathParts = <<>>
    /\ dirState = "unknown"
    /\ dirEntries = <<>>
    /\ files = <<>>
    /\ idx = 0
    /\ stdout = <<>>
    /\ stderr = <<>>
    /\ fsOps = <<>>
    /\ exitCode = -1

CallGenerateLink ==
    /\ pc = "module"
    /\ Len(lnResults) < MaxCalls
    /\ lnResults' = Append(lnResults, generateLink(lnFolder, lnFilename))
    /\ UNCHANGED <<lnFolder, lnFilename, cliVars>>

NextLink == CallGenerateLink

SpecLink == InitLink /\ [][NextLink]_vars

----------------------------------------------------------------------------
(* Vocabulary of the properties, stated on the command line and on the     *)
(* directory rather than on the script's intermediate values.              *)

Meta == <<"m","e","t","a">>

Docs == <<"d","o","c","s">>

APng == <<"a",".","p","n","g">>

BPng == <<"b",".","p","n","g">>

AllowedFolders == { Meta, <<"p","l","a","c","e","h","o","l","d","e","r","s">>,
                    <<"b","l","o","g">> }

UrlPrefix ==
    "https://raw.githubusercontent.com/xephas-official/AppAssets/refs/heads/main/linkyoo/"

Exited(code) == pc = "exited" /\ exitCode = code

HelpFlag(a) == \E i \in 1..Len(a) : a[i] \in { <<"-","-","h","e","l","p">>, <<"-","h">> }

Slashes(s) == { i \in 1..Len(s) : s[i] = "/" }

FirstSlash(s) ==
    IF Slashes(s) = {} THEN Len(s) + 1
    ELSE CHOOSE i \in Slashes(s) : \A j \in Slashes(s) : i <= j

FolderSegment(s) == SubSeq(s, 1, FirstSlash(s) - 1)

AfterFirstSlash(s) == SubSeq(s, FirstSlash(s) + 1, Len(s))

OnePath == Len(args) = 1 /\ ~HelpFlag(args)

Kinds(out) == [i \in 1..Len(out) |-> out[i].kind]

LinkLines(out) == SelectSeq(out, LAMBDA m : m.kind = "link")

UsageOnly(out) == Len(out) = 1 /\ out[1].kind = "usage" /\ out[1].text = UsageText

Range(seq) == { seq[i] : i \in 1..Len(seq) }

Visible(d) == { e \in Range(d) : e.name = <<>> \/ e.name[1] # "." }

StatFails(d) == \E e \in Visible(d) : e.kind \in {"gone", "vanishing"}

RegularFiles(d) == { e \in Visible(d) : e.kind \in {"file", "vanishing"} }

MtimeIn(d, name) == (CHOOSE e \in Range(d) : e.name = name).mtime

NewestFirst(d, list) ==
    \A i, j \in 1..Len(list) : i < j => MtimeIn(d, list[i]) >= MtimeIn(d, list[j])

CompleteList(d, list) ==
    /\ Range(list) = { e.name : e \in RegularFiles(d) }
    /\ Len(list) = Cardinality(RegularFiles(d))
    /\ NewestFirst(d, list)

Returned == pc \in {"listed", "forEach", "exited"} /\ dirState # "unknown"

----------------------------------------------------------------------------
(* C1: for every allowed folder and every filename, generateLink returns   *)
(* the fixed prefix, the folder, "/" and the filename, unescaped; a second *)
(* call returns the same string and no call writes output, touches the     *)
(* filesystem or ends the process.                                         *)
C1_GenerateLinkExact ==
    /\ \A i \in 1..Len(lnResults) :
          lnResults[i] = UrlPrefix \o Str(lnFolder) \o "/" \o Str(lnFilename)
    /\ (lnFolder = Meta /\ lnFilename = <<"a", " ", "%">> /\ lnResults # <<>>)
          => lnResults[1] = UrlPrefix \o "meta/a %"
    /\ (pc = "module") => stdout = <<>> /\ stderr = <<>> /\ fsOps = <<>> /\ exitCode = -1

C1_Witness ==
    /\ Len(lnResults) = 2
    /\ lnFolder = Meta
    /\ lnFilename = <<"a", "/", "%">>
    /\ lnResults[2] = UrlPrefix \o "meta/a/%"

(* C2 as stated: a single path argument whose folder segment is not an     *)
(* allowed folder ends the process with code 1 and an error on standard    *)
(* error that names the folder, whatever the number of segments.           *)
C2_InvalidFolderAnyShape ==
    (pc = "exited" /\ OnePath /\ FolderSegment(args[1]) \notin AllowedFolders)
        => /\ exitCode = 1
           /\ \E i \in 1..Len(stderr) :
                 /\ stderr[i].kind = "invalidFolder"
                 /\ stderr[i].folder = Str(FolderSegment(args[1]))

(* C2 amended: with one or two segments the process ends with code 1 and   *)
(* the error names the invalid folder; with more than two segments it ends *)
(* with code 1 and the path-format error, which names no folder.           *)
C2_InvalidFolderByShape ==
    (pc = "exited" /\ OnePath /\ FolderSegment(args[1]) \notin AllowedFolders)
        => /\ exitCode = 1
           /\ Len(stderr) = 1
           /\ IF Cardinality(Slashes(args[1])) <= 1
              THEN /\ stderr[1].kind = "invalidFolder"
                   /\ stderr[1].folder = Str(FolderSegment(args[1]))
                   /\ stderr[1].text =
                         "Error: Invalid folder \"" \o Str(FolderSegment(args[1]))
                             \o "\". Must be one of: meta, placeholders, blog\n"
              ELSE /\ stderr[1].kind = "pathFormatError"
                   /\ stderr[1].text =
                         "Error: Path must be in the format: folder/filename or just folder\n"

C2_Witness ==
    /\ Exited(1)
    /\ args = << <<"d","o","c","s","/","a",".","p","n","g">> >>
    /\ stderr[1].folder = "docs"

(* C3: the directory is scanned, or a link printed, only when the folder   *)
(* segment is an allowed folder.                                           *)
C3_ValidatedBeforeAccess ==
    (pc = "exists" \/ fsOps # <<>> \/ LinkLines(stdout) # <<>>)
        => OnePath /\ FolderSegment(args[1]) \in AllowedFolders

C3_Witness ==
    /\ pc = "forEach"
    /\ Len(fsOps) > 2
    /\ LinkLines(stdout) # <<>>

(* C4: no argument, or --help or -h at any position: usage on standard     *)
(* output, nothing on standard error, no filesystem access, no link, exit  *)
(* code 0, also when the argument count or another argument is wrong.      *)
C4_HelpFirst ==
    (pc = "exited" /\ (Len(args) = 0 \/ HelpFlag(args)))
        => /\ UsageOnly(stdout)
           /\ stderr = <<>>
           /\ fsOps = <<>>
           /\ exitCode = 0

C4_Witness ==
    /\ Exited(0)
    /\ args = << <<"d","o","c","s","/","a","/","b">>, <<"-","h">> >>
    /\ UsageOnly(stdout)

(* C5: without a help flag, more than one argument, or one argument with   *)
(* more than two segments: one error on standard error, usage on standard  *)
(* output, no link, no filesystem access, exit code 1.                     *)
C5_UsageError ==
    (/\ pc = "exited"
     /\ ~HelpFlag(args)
     /\ \/ Len(args) > 1
        \/ Len(args) = 1 /\ Cardinality(Slashes(args[1])) >= 2)
        => /\ Len(stderr) = 1
           /\ stderr[1].kind \in {"argCountError", "pathFormatError"}
           /\ UsageOnly(stdout)
           /\ fsOps = <<>>
           /\ exitCode = 1

C5_Witness ==
    /\ Exited(1)
    /\ args = << <<"m","e","t","a","/","a","/","b">> >>
    /\ Kinds(stderr) = <<"pathFormatError">>

(* C6: one argument with exactly one "/" and an allowed folder before it:  *)
(* exactly one link, generateLink(folder, filename), on standard output,   *)
(* nothing on standard error, no filesystem access, exit code 0, also for  *)
(* the empty filename.                                                     *)
C6_SingleLink ==
    (pc = "exited" /\ OnePath /\ Cardinality(Slashes(args[1])) = 1
        /\ FolderSegment(args[1]) \in AllowedFolders)
        => /\ Len(LinkLines(stdout)) = 1
           /\ LinkLines(stdout)[1].text =
                 generateLink(FolderSegment(args[1]), AfterFirstSlash(args[1]))
           /\ LinkLines(stdout)[1].text =
                 UrlPrefix \o Str(FolderSegment(args[1])) \o "/"
                     \o Str(AfterFirstSlash(args[1]))
           /\ Kinds(stdout) = <<"linkTitle", "link", "blank">>
           /\ stderr = <<>>
           /\ fsOps = <<>>
           /\ exitCode = 0
           /\ (args[1] = <<"m","e","t","a","/","c","o","v","e","r",".","w","e","b","p">>)
                 => stdout[2].text = UrlPrefix \o "meta/cover.webp"

C6_Witness ==
    /\ Exited(0)
    /\ args = << <<"m","e","t","a","/">> >>
    /\ stdout[2].text = UrlPrefix \o "meta/"

(* C7: when the directory was read and every stat succeeded, the list      *)
(* returned holds exactly once each name of an entry that is not hidden    *)
(* and is a regular file, a strictly newer file before an older one.       *)
C7_ListedNewestFirst ==
    (Returned /\ dirState = "read" /\ ~StatFails(dirEntries))
        => /\ CompleteList(dirEntries, files)
           /\ \A i, j \in 1..Len(files) :
                 MtimeIn(dirEntries, files[i]) > MtimeIn(dirEntries, files[j]) => i < j
           /\ \A i \in 1..Len(files) : files[i][1] # "."
           /\ stderr = <<>>

C7_Witness ==
    /\ pc = "listed"
    /\ Len(dirEntries) = 3
    /\ dirEntries[1].kind = "file" /\ dirEntries[1].mtime = 1
    /\ dirEntries[2].kind = "dir"
    /\ dirEntries[3].kind = "file" /\ dirEntries[3].mtime = 2
    /\ files = <<dirEntries[3].name, dirEntries[1].name>>

(* C8: folder-only mode with an allowed folder: a missing directory, a     *)
(* failed directory read or a failed stat is reported on standard error,   *)
(* the list is empty, and the process prints "No files found" for the      *)
(* folder, no link and no usage, and ends with code 0.                     *)
C8_ListingFailureIsEmpty ==
    (Returned /\ (dirState \in {"missing", "unreadable"} \/ StatFails(dirEntries)))
        => /\ files = <<>>
           /\ Len(stderr) = 1
           /\ stderr[1].kind = (IF dirState = "missing" THEN "missingDir" ELSE "readError")
           /\ pc # "forEach"
           /\ pc = "exited"
                 => /\ exitCode = 0
                    /\ Len(stdout) = 1
                    /\ stdout[1].kind = "noFiles"
                    /\ stdout[1].text =
                          "\nNo files found in \"" \o Str(args[1]) \o "\" folder.\n"

C8_Witness ==
    /\ Exited(0)
    /\ dirState = "missing"
    /\ args = <<Meta>>
    /\ Kinds(stdout) = <<"noFiles">>
    /\ Kinds(stderr) = <<"missingDir">>

(* C9: folder-only mode with n > 0 files listed: a header with the folder  *)
(* and the count n, "file" for n = 1 and "files" otherwise, then for       *)
(* k = 1..n, in the order of the list, the index k, the filename and its   *)
(* link; n links in all, exit code 0.                                      *)
C9_NumberedListing ==
    (pc = "exited" /\ dirState = "read" /\ files # <<>>)
        => LET n == Len(files)
               folder == Str(args[1])
           IN  /\ exitCode = 0
               /\ Len(stdout) = 1 + 2 * n
               /\ Len(LinkLines(stdout)) = n
               /\ stdout[1].kind = "header"
               /\ stdout[1].text =
                     "\nGenerated Links for \"" \o folder \o "\" folder (" \o ToString(n)
                         \o (IF n = 1 THEN " file" ELSE " files")
                         \o ", sorted by newest first):\n"
               /\ \A k \in 1..n :
                     /\ stdout[2 * k].kind = "item"
                     /\ stdout[2 * k].num = k
                     /\ stdout[2 * k].text = ToString(k) \o ". " \o Str(files[k])
                     /\ stdout[2 * k + 1].kind = "link"
                     /\ stdout[2 * k + 1].link = generateLink(args[1], files[k])
                     /\ stdout[2 * k + 1].text =
                           "   " \o UrlPrefix \o folder \o "/" \o Str(files[k]) \o "\n"
               /\ (args[1] = Meta
                     /\ dirEntries = << [name |-> APng, kind |-> "file", mtime |-> 1],
                                        [name |-> BPng, kind |-> "file", mtime |-> 2] >>)
                     => /\ stdout[1].text =
                              "\nGenerated Links for \"meta\" folder (2 files, sorted by newest first):\n"
                        /\ stdout[2].text = "1. b.png"
                        /\ stdout[3].link = UrlPrefix \o "meta/b.png"
                        /\ stdout[4].text = "2. a.png"
                        /\ stdout[5].link = UrlPrefix \o "meta/a.png"

C9_Witness ==
    /\ Exited(0)
    /\ args = <<Meta>>
    /\ dirEntries = << [name |-> APng, kind |-> "file", mtime |-> 1],
                       [name |-> BPng, kind |-> "file", mtime |-> 2] >>
    /\ Len(stdout) = 5

C9_WitnessSingular ==
    /\ Exited(0)
    /\ Len(files) = 1
    /\ Kinds(stdout) = <<"header", "item", "link">>

(* C10: the list returned is the complete list of the non-hidden regular   *)
(* files or the empty list; one failed stat of a non-hidden entry empties  *)
(* it; a hidden entry is never stat-ed and never causes a failure.         *)
C10_AllOrNothing ==
    (Returned /\ dirState = "read")
        => /\ files = <<>> \/ CompleteList(dirEntries, files)
           /\ StatFails(dirEntries) => files = <<>>
           /\ \A i \in 1..Len(fsOps) :
                 fsOps[i].op = "statSync"
                     => \E e \in Visible(dirEntries) :
                           fsOps[i].path = "/repo/linkyoo/" \o Str(args[1]) \o "/" \o Str(e.name)
           /\ ~StatFails(dirEntries) => stderr = <<>>

C10_Witness ==
    /\ pc = "listed"
    /\ Len(dirEntries) = 3
    /\ dirEntries[1].kind = "file" /\ dirEntries[1].name = APng
    /\ dirEntries[2].kind = "gone" /\ dirEntries[2].name[1] = "."
    /\ dirEntries[3].kind = "gone" /\ dirEntries[3].name = BPng
    /\ files = <<>>
    /\ Kinds(stderr) = <<"readError">>

C10_WitnessHiddenGone ==
    /\ pc = "listed"
    /\ Len(dirEntries) = 2
    /\ dirEntries[1].kind = "gone" /\ dirEntries[1].name[1] = "."
    /\ dirEntries[2].kind = "file"
    /\ files = <<dirEntries[2].name>>
    /\ stderr = <<>>

====
